---- MODULE Spec2Model ----
(***************************************************************************)
(* WiCAN data logger (src/wican_logger_v3.py): device discovery            *)
(* (hostnames, well-known addresses, subnet sweep), the manual-entry       *)
(* fallback, and the acquisition loop with its schema-evolving CSV writer. *)
(*                                                                         *)
(* Three specifications share the variables:                               *)
(*   SpecProbe      check_wican applied to every enumerated response;      *)
(*   SpecDiscovery  main() from its first line to the assignment of        *)
(*                  working_url (line 330);                                *)
(*   SpecLoop       main() from line 339 on: the polling loop, the CSV     *)
(*                  writes, the interrupt and the final summary.           *)
(***************************************************************************)
EXTENDS Integers, Sequences, FiniteSets, TLC

VARIABLES
    \* ---- control
    pc,             \* position of the main thread
    \* ---- configuration block (lines 22, 31)
    WICAN_IP, SCAN_SUBNETS,
    \* ---- check_wican applied on its own (SpecProbe)
    probeArg, probeRes,
    \* ---- discover_wican / main before the loop
    hostIdx,        \* index of the hostname being tried (line 118)
    results,        \* the well-known batch: per index queued/running/result
    subnets,        \* get_subnets_to_scan() (line 150)
    subIdx,         \* index of the subnet being swept (line 152)
    scanResults,    \* scan_subnet: the watched probes of the sweep in flight
    wican_ip, working_url,
    tried,          \* history: hostnames tried so far
    probed,         \* history: <<phase, address>> of every probe issued
    answered,       \* history: <<phase, address>> of every probe completed
    confirmed,      \* history: <<phase, address>> of every probe that confirmed
    returned,       \* history: <<phase, address>> discover_wican returned
    \* ---- acquisition loop (lines 339-408)
    row_count, error_count, fieldnames, all_rows,
    data,           \* fetch_data()'s result for the tick
    row,            \* the row built at lines 354-355
    wi,             \* rows written so far by writerows (line 180)
    fileExists, file,   \* the artifact: its lines, each a sequence of cells
    captured,       \* history: <<stamp, body>> of every reading taken
    tickStart,      \* history: data rows in the artifact at the tick's start
    migrating,      \* history: the record in progress rewrites the artifact
    streak,         \* history: failed ticks since the last reading
    notice,         \* history: the notice printed by the tick, if any
    streakNotices,  \* history: notices printed in the current failure streak
    interrupted,    \* KeyboardInterrupt delivered
    intAt,          \* history: where the interrupt arrived
    summary,        \* what the except block printed (lines 400-408)
    \* ---- pacing (lines 346, 395-397)
    elapsed,        \* time.time() - start_time, in clock units (line 395)
    sleep_time,     \* the duration handed to time.sleep (line 396)
    overran,        \* history: the previous tick took longer than INTERVAL
    pollsInTick,    \* history: fetch_data calls since the tick began
    \* ---- history of the sweep (lines 150-155)
    localIp,        \* history: what get_local_ip() returned (line 67)
    candidates,     \* history: the list get_subnets_to_scan() returned
    swept           \* history: the subnets handed to scan_subnet, in order

discVars == <<hostIdx, results, subnets, subIdx, scanResults, wican_ip,
              working_url, tried, probed, answered, confirmed, returned>>
loopVars == <<row_count, error_count, fieldnames, all_rows, data, row, wi,
              fileExists, file, captured, tickStart, migrating, streak, notice,
              streakNotices, interrupted, intAt, summary>>
paceVars == <<elapsed, sleep_time, overran, pollsInTick>>
sweepVars == <<localIp, candidates, swept>>
cfgVars == <<WICAN_IP, SCAN_SUBNETS>>
probeVars == <<probeArg, probeRes>>
vars == <<pc, cfgVars, probeVars, discVars, loopVars, paceVars, sweepVars>>

(***************************************************************************)
(* Python values                                                           *)
(***************************************************************************)
\* Python's None, kept apart from the empty string.
NoneVal == "<None>"

\* bool(x) for the strings the program tests (lines 63, 67, 100, 122, 143,
\* 154, 163, 290, 295, 322).
TruthyStr(x) == x # NoneVal /\ x # ""

RECURSIVE SeqToSet(_)
SeqToSet(s) == IF s = <<>> THEN {} ELSE {Head(s)} \cup SeqToSet(Tail(s))

(***************************************************************************)
(* Responses of the device endpoint                                        *)
(***************************************************************************)
\* Field names the device may report, listed in Python's string order (code
\* points: upper case before lower case).
FieldOrder == <<"Cell_01_V", "SOC_pct", "timestamp">>
DeviceFields == SeqToSet(FieldOrder)

\* The value reported for each field (JSON scalars, as the text csv writes).
DeviceValue(f) ==
    CASE f = "Cell_01_V" -> "3.7"
      [] f = "SOC_pct" -> "87.5"
      [] f = "timestamp" -> "dev"

\* JSON objects: a mapping from any subset of the fields to their values.
Mappings == {[f \in S |-> DeviceValue(f)] : S \in SUBSET DeviceFields}

\* A parsed JSON document.
JsonObject(m) ==
    [type |-> "object", map |-> m, len |-> Cardinality(DOMAIN m),
     truthy |-> (DOMAIN m # {})]
JsonArray(n) == [type |-> "array", map |-> <<>>, len |-> n, truthy |-> (n > 0)]
JsonScalar(t) == [type |-> "scalar", map |-> <<>>, len |-> 0, truthy |-> t]
NotJson == [type |-> "invalid", map |-> <<>>, len |-> 0, truthy |-> FALSE]

\* Array bodies hold scalars or objects (never 2-item sequences).
Bodies ==
    {JsonObject(m) : m \in Mappings}
        \cup {JsonArray(0), JsonArray(2)}
        \cup {JsonScalar(TRUE), JsonScalar(FALSE)}
        \cup {NotJson}

\* What urlopen + read + decode produce: an exception or a body.
Responses ==
    {[status |-> "timeout", body |-> NotJson],
     [status |-> "error", body |-> NotJson]}
        \cup {[status |-> "ok", body |-> b] : b \in Bodies}

\* One response of each kind, for the probes of discovery.
ProbeResponses ==
    {[status |-> "timeout", body |-> NotJson],
     [status |-> "error", body |-> NotJson]}
        \cup {[status |-> "ok", body |-> b] :
                b \in {NotJson, JsonObject(<<>>), JsonArray(2), JsonScalar(TRUE)}}

\* json.loads(data) raises on a body that is not JSON, and accepts any JSON
\* document: object, array or scalar.
JsonLoadsRaises(resp) == resp.status # "ok" \/ resp.body.type = "invalid"

(***************************************************************************)
(* check_wican (lines 76-87)                                               *)
(***************************************************************************)
\* The bare except turns every exception into None; otherwise the ip.
check_wican(ip, resp) ==
    IF JsonLoadsRaises(resp) THEN NoneVal ELSE ip

\* The probe applied on its own to one address and one response.
ProbeAddresses ==
    {"192.168.8.102", "192.168.4.1", "192.168.1.100", "10.0.0.7", "wican.local"}

ProbeTimeouts == {5, 10, 30}    \* tenths of a second: 0.5 s, 1 s, 3 s

Probe ==
    /\ pc = "probe"
    /\ probeRes' = check_wican(probeArg.ip, probeArg.resp)
    /\ pc' = "probed"
    /\ UNCHANGED <<probeArg, cfgVars, discVars, loopVars, paceVars, sweepVars>>

(***************************************************************************)
(* Configuration and fixed candidate lists                                 *)
(***************************************************************************)
WICAN_HOSTNAMES == <<"wican.local", "wican">>

common_ips ==
    <<"192.168.8.102", "192.168.4.1", "192.168.1.100",
      "192.168.1.102", "192.168.0.100", "192.168.0.102">>

FallbackSubnets == <<"192.168.1", "192.168.0", "192.168.8", "10.0.0">>

\* Settings of the configuration block that the model explores.
ConfiguredIps == {"", "192.168.8.50"}
ConfiguredSubnets == {<<>>, <<"192.168.8", "172.16.0">>}

\* socket.gethostbyname: the address a name may resolve to (or it raises).
Resolve(hostname) ==
    IF hostname = "wican.local" THEN "192.168.8.102" ELSE "192.168.1.50"

\* get_local_ip (lines 50-59): the local address, or None when the socket
\* call raises.
LocalIps == {NoneVal, "192.168.8.23"}
Octets(ip) == IF ip = "192.168.8.23" THEN <<"192", "168", "8", "23">> ELSE <<>>

\* '.'.join(parts[:3]) (lines 69-70)
SubnetOf(parts) == parts[1] \o "." \o parts[2] \o "." \o parts[3]

\* The fallback list whatever is configured or detected.
FallbackOnly(configured, local_ip) == FallbackSubnets

\* get_subnets_to_scan (lines 61-74)
get_subnets_to_scan(configured, local_ip) ==
    IF configured # <<>> THEN configured
    ELSE IF TruthyStr(local_ip) THEN <<SubnetOf(Octets(local_ip))>>
    ELSE FallbackSubnets

(***************************************************************************)
(* discover_wican (lines 110-157) and main before the loop (lines 289-330) *)
(***************************************************************************)
Idle == [i \in 1..Len(common_ips) |-> "idle"]
NoScan == <<>>

\* The locals of discover_wican once it has returned.
DiscoveryLocalsCleared ==
    /\ hostIdx' = 0
    /\ results' = Idle
    /\ subnets' = <<>>
    /\ subIdx' = 0
    /\ scanResults' = NoScan

\* main, lines 294-295 and 330: the address discovery returned is taken when
\* truthy, else the manual prompt starts.
Return(phase, ip) ==
    /\ wican_ip' = ip
    /\ returned' = <<phase, ip>>
    /\ pc' = IF TruthyStr(ip) THEN "url" ELSE "prompt"
    /\ DiscoveryLocalsCleared

\* main, lines 290-294
Start ==
    /\ pc = "main"
    /\ IF TruthyStr(WICAN_IP)
       THEN /\ wican_ip' = WICAN_IP
            /\ pc' = "url"
            /\ UNCHANGED hostIdx
       ELSE /\ pc' = "hostnames"
            /\ hostIdx' = 1
            /\ UNCHANGED wican_ip
    /\ UNCHANGED <<results, subnets, subIdx, scanResults, working_url, tried,
                   probed, answered, confirmed, returned>>
    /\ UNCHANGED <<cfgVars, probeVars, loopVars, paceVars, sweepVars>>

\* After the last hostname the loop of line 118 ends and phase 2 starts.
AfterHostname(i) ==
    /\ hostIdx' = i + 1
    /\ pc' = IF i < Len(WICAN_HOSTNAMES) THEN "hostnames" ELSE "common"
    /\ UNCHANGED <<results, subnets, subIdx, scanResults, wican_ip, returned>>

\* Lines 118-127, one hostname: gethostbyname raises (the bare except prints
\* "not found"), or the address is probed with the default timeout.
TryHostname ==
    /\ pc = "hostnames"
    /\ LET hostname == WICAN_HOSTNAMES[hostIdx] IN
       /\ tried' = tried \cup {hostname}
       /\ \/ /\ AfterHostname(hostIdx)
             /\ UNCHANGED <<probed, answered, confirmed>>
          \/ \E resp \in ProbeResponses :
                LET ip == Resolve(hostname) IN
                /\ probed' = probed \cup {<<1, ip>>}
                /\ answered' = answered \cup {<<1, ip>>}
                /\ IF TruthyStr(check_wican(ip, resp))
                   THEN /\ confirmed' = confirmed \cup {<<1, ip>>}
                        /\ Return(1, ip)
                   ELSE /\ AfterHostname(hostIdx)
                        /\ UNCHANGED confirmed
    /\ UNCHANGED <<working_url, cfgVars, probeVars, loopVars, paceVars, sweepVars>>

\* ThreadPoolExecutor(max_workers=10), line 140
CommonWorkers == 10

\* executor.map(check_wican, common_ips), line 141: every task is submitted.
SubmitCommon ==
    /\ pc = "common"
    /\ results' = [i \in 1..Len(common_ips) |-> "queued"]
    /\ pc' = "common_wait"
    /\ UNCHANGED <<hostIdx, subnets, subIdx, scanResults, wican_ip,
                   working_url, tried, probed, answered, confirmed, returned>>
    /\ UNCHANGED <<cfgVars, probeVars, loopVars, paceVars, sweepVars>>

Running(res) == {i \in DOMAIN res : res[i] = "running"}

\* A worker thread issues the probe of one submitted task.
StartCommon ==
    /\ pc = "common_wait"
    /\ Cardinality(Running(results)) < CommonWorkers
    /\ \E i \in DOMAIN results :
        /\ results[i] = "queued"
        /\ results' = [results EXCEPT ![i] = "running"]
        /\ probed' = probed \cup {<<2, common_ips[i]>>}
    /\ UNCHANGED <<pc, hostIdx, subnets, subIdx, scanResults, wican_ip,
                   working_url, tried, answered, confirmed, returned>>
    /\ UNCHANGED <<cfgVars, probeVars, loopVars, paceVars, sweepVars>>

\* A probe of the batch completes, in any order.
FinishCommon ==
    /\ pc = "common_wait"
    /\ \E i \in DOMAIN results, resp \in ProbeResponses :
        LET r == check_wican(common_ips[i], resp) IN
        /\ results[i] = "running"
        /\ results' = [results EXCEPT ![i] = r]
        /\ answered' = answered \cup {<<2, common_ips[i]>>}
        /\ confirmed' = IF TruthyStr(r) THEN confirmed \cup {<<2, common_ips[i]>>}
                        ELSE confirmed
    /\ UNCHANGED <<pc, hostIdx, subnets, subIdx, scanResults, wican_ip,
                   working_url, tried, probed, returned>>
    /\ UNCHANGED <<cfgVars, probeVars, loopVars, paceVars, sweepVars>>

\* list(executor.map(...)), line 141, returns once every result is in.
BatchDone(res) == \A i \in DOMAIN res : res[i] \notin {"queued", "running"}

\* A loop that keeps overwriting its pick: the last confirmed address.
LastConfirmed(ips, res) ==
    LET hits == {i \in DOMAIN res : TruthyStr(res[i])} IN
    IF hits = {} THEN NoneVal
    ELSE ips[CHOOSE i \in hits : \A j \in hits : j <= i]

\* A loop that prints its find and goes on: nothing is returned.
NoneReturned(ips, res) == NoneVal

\* Lines 142-145: the first address, in list order, whose result is truthy.
FirstConfirmed(ips, res) ==
    LET hits == {i \in DOMAIN res : TruthyStr(res[i])} IN
    IF hits = {} THEN NoneVal
    ELSE ips[CHOOSE i \in hits : \A j \in hits : i <= j]

\* Lines 141-146
PickCommon ==
    /\ pc = "common_wait"
    /\ BatchDone(results)
    /\ LET ip == FirstConfirmed(common_ips, results) IN
       IF TruthyStr(ip)
       THEN Return(2, ip)
       ELSE /\ pc' = "subnets"
            /\ results' = Idle
            /\ UNCHANGED <<hostIdx, subnets, subIdx, scanResults, wican_ip,
                           returned>>
    /\ UNCHANGED <<working_url, tried, probed, answered, confirmed>>
    /\ UNCHANGED <<cfgVars, probeVars, loopVars, paceVars, sweepVars>>

\* Line 150
GetSubnets ==
    /\ pc = "subnets"
    /\ \E local_ip \in LocalIps :
        /\ subnets' = get_subnets_to_scan(SCAN_SUBNETS, local_ip)
        /\ localIp' = IF SCAN_SUBNETS # <<>> THEN "" ELSE local_ip
    /\ candidates' = subnets'
    /\ subIdx' = 1
    /\ pc' = "scan"
    /\ UNCHANGED <<hostIdx, results, scanResults, wican_ip, working_url, tried,
                   probed, answered, confirmed, returned, swept>>
    /\ UNCHANGED <<cfgVars, probeVars, loopVars, paceVars>>

\* scan_subnet's defaults (line 89)
ScanStart == 1
ScanEnd == 255

\* Line 94: ips = [f"{subnet}.{i}" for i in range(start, end + 1)]
ScanOctets(start, end) == start..end
Address(subnet, i) == subnet \o "." \o ToString(i)

\* The addresses of a swept subnet that may answer; every other address of
\* the subnet times out.
Watched == {ScanStart, ScanStart + 1, ScanEnd - 1, ScanEnd}

\* Lines 91-98: the probes of one subnet are handed to the pool.
BeginScan ==
    /\ pc = "scan"
    /\ LET subnet == subnets[subIdx]
           octets == ScanOctets(ScanStart, ScanEnd)
       IN
       /\ probed' = probed \cup {<<3, Address(subnet, i)>> : i \in octets}
       /\ answered' = answered
              \cup {<<3, Address(subnet, i)>> : i \in octets \ Watched}
       /\ scanResults' = [i \in octets \cap Watched |-> "running"]
       /\ swept' = Append(swept, subnet)
    /\ pc' = "scan_wait"
    /\ UNCHANGED <<hostIdx, results, subnets, subIdx, wican_ip, working_url,
                   tried, confirmed, returned, localIp, candidates>>
    /\ UNCHANGED <<cfgVars, probeVars, loopVars, paceVars>>

\* A probe of the sweep completes, in any order.
FinishScan ==
    /\ pc = "scan_wait"
    /\ \E i \in DOMAIN scanResults, resp \in ProbeResponses :
        LET ip == Address(subnets[subIdx], i)
            r == check_wican(ip, resp)
        IN
        /\ scanResults[i] = "running"
        /\ scanResults' = [scanResults EXCEPT ![i] = r]
        /\ answered' = answered \cup {<<3, ip>>}
        /\ confirmed' = IF TruthyStr(r) THEN confirmed \cup {<<3, ip>>}
                        ELSE confirmed
    /\ UNCHANGED <<pc, hostIdx, results, subnets, subIdx, wican_ip,
                   working_url, tried, probed, returned>>
    /\ UNCHANGED <<cfgVars, probeVars, loopVars, paceVars, sweepVars>>

FoundReversed(res, start, end) ==
    LET ips == [k \in 1..(end + 1 - start) |-> end + 1 - k]
        hits == SelectSeq(ips, LAMBDA i : i \in DOMAIN res /\ TruthyStr(res[i]))
    IN [k \in 1..Len(hits) |-> res[hits[k]]]

\* Lines 99-101: executor.map yields the results in the order of ips; the
\* truthy ones are appended to found.
Found(res, start, end) ==
    LET ips == [k \in 1..(end + 1 - start) |-> start + k - 1]
        hits == SelectSeq(ips, LAMBDA i : i \in DOMAIN res /\ TruthyStr(res[i]))
    IN [k \in 1..Len(hits) |-> res[hits[k]]]

\* Lines 99-108 and 152-157: the subnet's results are collected; the first
\* found address is returned, else the next subnet is swept, else None.
CollectScan ==
    /\ pc = "scan_wait"
    /\ BatchDone(scanResults)
    /\ LET found == Found(scanResults, ScanStart, ScanEnd) IN
       IF found # <<>>
       THEN Return(3, found[1])
       ELSE IF subIdx < Len(subnets)
            THEN /\ subIdx' = subIdx + 1
                 /\ scanResults' = NoScan
                 /\ pc' = "scan"
                 /\ UNCHANGED <<hostIdx, results, subnets, wican_ip, returned>>
            ELSE Return(0, NoneVal)
    /\ UNCHANGED <<working_url, tried, probed, answered, confirmed>>
    /\ UNCHANGED <<cfgVars, probeVars, loopVars, paceVars, sweepVars>>

\* What the user may type at the prompt of line 306 (stripped), with the
\* pieces split('.') gives: a number for a digit string, -1 otherwise.
ManualInputs ==
    {[text |-> "q", parts |-> <<-1>>],
     [text |-> "", parts |-> <<-1>>],
     [text |-> "wican.local", parts |-> <<-1, -1>>],
     [text |-> "192.168.8", parts |-> <<192, 168, 8>>],
     [text |-> "192.168.8.300", parts |-> <<192, 168, 8, 300>>],
     [text |-> "192.168.8.77", parts |-> <<192, 168, 8, 77>>]}

QuitWords == {"q", "quit", "exit", ""}

\* Lines 316-317
ValidIpFormat(parts) ==
    Len(parts) = 4 /\ \A k \in 1..Len(parts) : parts[k] >= 0 /\ parts[k] <= 255

\* Lines 304-328, one round of the prompt: EOF or an interrupt, a quit word,
\* a malformed address, or an address probed with timeout=3.
Prompt ==
    /\ pc = "prompt"
    /\ \/ /\ pc' = "exit"
          /\ UNCHANGED <<wican_ip, probed, answered, confirmed>>
       \/ \E input \in ManualInputs :
            IF input.text \in QuitWords
            THEN /\ pc' = "exit"
                 /\ UNCHANGED <<wican_ip, probed, answered, confirmed>>
            ELSE IF ~ValidIpFormat(input.parts)
            THEN UNCHANGED <<pc, wican_ip, probed, answered, confirmed>>
            ELSE \E resp \in ProbeResponses :
                    /\ probed' = probed \cup {<<4, input.text>>}
                    /\ answered' = answered \cup {<<4, input.text>>}
                    /\ IF TruthyStr(check_wican(input.text, resp))
                       THEN /\ confirmed' = confirmed \cup {<<4, input.text>>}
                            /\ wican_ip' = input.text
                            /\ pc' = "url"
                       ELSE UNCHANGED <<pc, wican_ip, confirmed>>
    /\ UNCHANGED <<hostIdx, results, subnets, subIdx, scanResults, working_url,
                   tried, returned>>
    /\ UNCHANGED <<cfgVars, probeVars, loopVars, paceVars, sweepVars>>

\* Line 330
Url(ip) == "http://" \o ip \o "/autopid_data"

SetUrl ==
    /\ pc = "url"
    /\ working_url' = Url(wican_ip)
    /\ pc' = "ready"
    /\ UNCHANGED <<hostIdx, results, subnets, subIdx, scanResults, wican_ip,
                   tried, probed, answered, confirmed, returned>>
    /\ UNCHANGED <<cfgVars, probeVars, loopVars, paceVars, sweepVars>>

(***************************************************************************)
(* fetch_data (lines 159-173) and the helpers of the acquisition loop      *)
(***************************************************************************)
NoData == [type |-> "none", map |-> <<>>, len |-> 0, truthy |-> FALSE]

\* None without a url and on any Exception; else the parsed document.
fetch_data(url, resp) ==
    IF ~TruthyStr(url) THEN NoData
    ELSE IF JsonLoadsRaises(resp) THEN NoData
    ELSE resp.body

\* Line 36
OUTPUT_FILE == "wican_log.csv"

\* datetime.now().isoformat() at the n-th reading (line 352).
Stamp(n) == "t" \o ToString(n)

\* Lines 354-355: row = {"timestamp": timestamp}; row.update(data). A key
\* of data replaces the one already in row.
BuildRow(timestamp, m) ==
    [k \in {"timestamp"} \cup DOMAIN m |->
        IF k \in DOMAIN m THEN m[k] ELSE timestamp]

\* dict.update raises TypeError or ValueError when handed an array of
\* scalars or objects, or a scalar.
UpdateRaises(d) == d.type # "object"

\* Lines 357-359
NewKeys(r, fields) == DOMAIN r \ SeqToSet(fields)

\* sorted(new_keys), line 362
SortedKeys(keys) == SelectSeq(FieldOrder, LAMBDA f : f \in keys)

\* The schema rebuilt from scratch: every key seen, sorted.
ResortedFields(fields, keys) == SortedKeys(SeqToSet(fields) \cup keys)

\* fieldnames.extend(sorted_new_keys), line 363
ExtendFields(fields, keys) == fields \o SortedKeys(keys)

\* csv writes None as the empty string and any other value as its text.
CsvText(v) == IF v = NoneVal THEN "" ELSE v

\* A writer that fills the cells of missing fields with a marker.
DictToListMarked(r, fields) ==
    [k \in 1..Len(fields) |->
        IF fields[k] \in DOMAIN r THEN CsvText(r[fields[k]]) ELSE "NA"]

\* csv.DictWriter's row (lines 178, 374): one cell per field of fieldnames,
\* the empty string (restval) for a field the row lacks.
DictToList(r, fields) ==
    [k \in 1..Len(fields) |->
        IF fields[k] \in DOMAIN r THEN CsvText(r[fields[k]]) ELSE ""]

\* The failure streak length at which the periodic notice repeats (line 392)
NoticeEvery == 10

\* A notice at every failure.
NoticeAlways(n) == IF n = 1 THEN "lost" ELSE "retry"

\* Lines 390-393
NoticeFor(n) ==
    IF n = 1 THEN "lost"
    ELSE IF n % NoticeEvery = 0 THEN "retry"
    ELSE "none"

NoSummary == [total_rows |-> -1, total_fields |-> -1, path |-> NoneVal,
              field_list |-> <<>>]

\* A summary that always names the file and lists the fields.
SummaryUnconditional(rc, fields) ==
    [total_rows |-> rc, total_fields |-> Len(fields),
     path |-> OUTPUT_FILE, field_list |-> fields]

\* Lines 400-408: the path and the field list only when rows were counted.
SummaryOf(rc, fields) ==
    [total_rows |-> rc, total_fields |-> Len(fields),
     path |-> IF rc > 0 THEN OUTPUT_FILE ELSE NoneVal,
     field_list |-> IF rc > 0 THEN fields ELSE <<>>]

\* Data rows of the artifact: its lines but the header.
DataRows(f) == IF f = <<>> THEN 0 ELSE Len(f) - 1

(***************************************************************************)
(* Bounds of the exploration                                               *)
(***************************************************************************)
MaxRows == 3        \* readings taken in a session
MaxErrors == 21     \* longest failure streak
ShortStreak == 2    \* longest streak once more than LongStreakRows readings
LongStreakRows == 1 \* were taken
ClockHz == 2        \* clock units per second
MaxElapsed == 3     \* longest tick body, in clock units

PollAllowed ==
    /\ Len(captured) < MaxRows
    /\ \/ error_count < ShortStreak
       \/ Len(captured) <= LongStreakRows /\ error_count < MaxErrors

(***************************************************************************)
(* The acquisition loop (lines 344-397)                                    *)
(***************************************************************************)
\* Lines 346-348: one GET per tick.
Poll ==
    /\ pc = "tick"
    /\ PollAllowed
    /\ \E resp \in Responses : data' = fetch_data(working_url, resp)
    /\ tickStart' = DataRows(file)
    /\ notice' = "none"
    /\ pollsInTick' = pollsInTick + 1
    /\ UNCHANGED <<migrating, streak>>
    /\ pc' = "got"
    /\ UNCHANGED <<row_count, error_count, fieldnames, all_rows, row, wi,
                   fileExists, file, captured, streakNotices, interrupted,
                   intAt, summary, elapsed, sleep_time, overran>>
    /\ UNCHANGED <<cfgVars, probeVars, discVars, sweepVars>>

\* Lines 350-359 with a mapping: the counter is reset, the row is built.
Reading ==
    /\ pc = "got"
    /\ data.truthy
    /\ ~UpdateRaises(data)
    /\ error_count' = 0
    /\ streakNotices' = 0
    /\ streak' = 0
    /\ LET timestamp == Stamp(Len(captured) + 1) IN
       /\ row' = BuildRow(timestamp, data.map)
       /\ captured' = Append(captured, [stamp |-> timestamp, body |-> data.map])
    /\ pc' = "keys"
    /\ UNCHANGED <<row_count, fieldnames, all_rows, data, wi, fileExists, file,
                   tickStart, migrating, notice, interrupted, intAt, summary>>
    /\ UNCHANGED <<cfgVars, probeVars, discVars, paceVars, sweepVars>>

\* Lines 350-355 with a truthy array or scalar: row.update(data) raises, and
\* the try of line 344 handles KeyboardInterrupt only.
ReadingRaises ==
    /\ pc = "got"
    /\ data.truthy
    /\ UpdateRaises(data)
    /\ error_count' = 0
    /\ streakNotices' = 0
    /\ streak' = 0
    /\ pc' = "crashed"
    /\ UNCHANGED <<row_count, fieldnames, all_rows, data, row, wi, fileExists,
                   file, captured, tickStart, migrating, notice, interrupted,
                   intAt, summary>>
    /\ UNCHANGED <<cfgVars, probeVars, discVars, paceVars, sweepVars>>

\* A failed tick that drops the readings held in memory.
FailedForgets ==
    /\ pc = "got"
    /\ ~data.truthy
    /\ error_count' = error_count + 1
    /\ streak' = streak + 1
    /\ all_rows' = <<>>
    /\ pc' = "notice"
    /\ UNCHANGED <<row_count, fieldnames, data, row, wi, fileExists,
                   file, captured, tickStart, migrating, notice, streakNotices,
                   interrupted, intAt, summary>>
    /\ UNCHANGED <<cfgVars, probeVars, discVars, paceVars, sweepVars>>

\* Lines 350, 388-389: a falsy result (None, {}, [], 0, "", false, null).
Failed ==
    /\ pc = "got"
    /\ ~data.truthy
    /\ error_count' = error_count + 1
    /\ streak' = streak + 1
    /\ pc' = "notice"
    /\ UNCHANGED <<row_count, fieldnames, all_rows, data, row, wi, fileExists,
                   file, captured, tickStart, migrating, notice, streakNotices,
                   interrupted, intAt, summary>>
    /\ UNCHANGED <<cfgVars, probeVars, discVars, paceVars, sweepVars>>

\* Lines 390-393
Notice ==
    /\ pc = "notice"
    /\ notice' = NoticeFor(error_count)
    /\ streakNotices' = IF NoticeFor(error_count) = "none" THEN streakNotices
                        ELSE streakNotices + 1
    /\ pc' = "sleep"
    /\ UNCHANGED <<row_count, error_count, fieldnames, all_rows, data, row, wi,
                   fileExists, file, captured, tickStart, migrating, streak,
                   interrupted, intAt, summary>>
    /\ UNCHANGED <<cfgVars, probeVars, discVars, paceVars, sweepVars>>

\* A record that rewrites the artifact whenever the schema grows.
ExtendRewritesAlways ==
    /\ pc = "keys"
    /\ LET new_keys == NewKeys(row, fieldnames) IN
       /\ migrating' = (new_keys # {})
       /\ IF new_keys # {}
          THEN /\ fieldnames' = ExtendFields(fieldnames, new_keys)
               /\ pc' = "rw_open"
          ELSE /\ pc' = "append"
               /\ UNCHANGED fieldnames
    /\ UNCHANGED <<row_count, error_count, all_rows, data, row, wi, fileExists,
                   file, captured, tickStart, streak, notice, streakNotices,
                   interrupted, intAt, summary>>
    /\ UNCHANGED <<cfgVars, probeVars, discVars, paceVars, sweepVars>>

\* Lines 357-369 up to the rewrite: the schema grows by the new keys.
Extend ==
    /\ pc = "keys"
    /\ LET new_keys == NewKeys(row, fieldnames) IN
       /\ migrating' = (new_keys # {} /\ row_count # 0)
       /\ IF new_keys # {}
          THEN /\ fieldnames' = ExtendFields(fieldnames, new_keys)
               /\ pc' = IF row_count = 0 THEN "append" ELSE "rw_open"
          ELSE /\ pc' = "append"
               /\ UNCHANGED fieldnames
    /\ UNCHANGED <<row_count, error_count, all_rows, data, row, wi, fileExists,
                   file, captured, tickStart, streak, notice, streakNotices,
                   interrupted, intAt, summary>>
    /\ UNCHANGED <<cfgVars, probeVars, discVars, paceVars, sweepVars>>

\* rewrite_csv, line 177: open(filepath, 'w') truncates the artifact.
RewriteOpen ==
    /\ pc = "rw_open"
    /\ file' = <<>>
    /\ fileExists' = TRUE
    /\ pc' = "rw_header"
    /\ UNCHANGED <<row_count, error_count, fieldnames, all_rows, data, row, wi,
                   captured, tickStart, migrating, streak, notice,
                   streakNotices, interrupted, intAt, summary>>
    /\ UNCHANGED <<cfgVars, probeVars, discVars, paceVars, sweepVars>>

\* rewrite_csv, line 179
RewriteHeader ==
    /\ pc = "rw_header"
    /\ file' = Append(file, fieldnames)
    /\ wi' = 0
    /\ pc' = "rw_rows"
    /\ UNCHANGED <<row_count, error_count, fieldnames, all_rows, data, row,
                   fileExists, captured, tickStart, migrating, streak, notice,
                   streakNotices, interrupted, intAt, summary>>
    /\ UNCHANGED <<cfgVars, probeVars, discVars, paceVars, sweepVars>>

\* rewrite_csv, line 180: writerows, one row at a time; after the last one
\* the with block closes the file.
RewriteRow ==
    /\ pc = "rw_rows"
    /\ wi < Len(all_rows)
    /\ file' = Append(file, DictToList(all_rows[wi + 1], fieldnames))
    /\ wi' = IF wi + 1 = Len(all_rows) THEN 0 ELSE wi + 1
    /\ pc' = IF wi + 1 = Len(all_rows) THEN "append" ELSE "rw_rows"
    /\ UNCHANGED <<row_count, error_count, fieldnames, all_rows, data, row,
                   fileExists, captured, tickStart, migrating, streak, notice,
                   streakNotices, interrupted, intAt, summary>>
    /\ UNCHANGED <<cfgVars, probeVars, discVars, paceVars, sweepVars>>

\* Line 371
AppendRow ==
    /\ pc = "append"
    /\ all_rows' = Append(all_rows, row)
    /\ pc' = "open_a"
    /\ UNCHANGED <<row_count, error_count, fieldnames, data, row, wi,
                   fileExists, file, captured, tickStart, migrating, streak,
                   notice, streakNotices, interrupted, intAt, summary>>
    /\ UNCHANGED <<cfgVars, probeVars, discVars, paceVars, sweepVars>>

\* Line 373: open(OUTPUT_FILE, 'a') creates the artifact when it is absent.
OpenAppend ==
    /\ pc = "open_a"
    /\ fileExists' = TRUE
    /\ pc' = "a_header"
    /\ UNCHANGED <<row_count, error_count, fieldnames, all_rows, data, row, wi,
                   file, captured, tickStart, migrating, streak, notice,
                   streakNotices, interrupted, intAt, summary>>
    /\ UNCHANGED <<cfgVars, probeVars, discVars, paceVars, sweepVars>>

\* An append that writes a header every time.
AppendHeaderAlways ==
    /\ pc = "a_header"
    /\ file' = Append(file, fieldnames)
    /\ pc' = "a_row"
    /\ UNCHANGED <<row_count, error_count, fieldnames, all_rows, data, row, wi,
                   fileExists, captured, tickStart, migrating, streak, notice,
                   streakNotices, interrupted, intAt, summary>>
    /\ UNCHANGED <<cfgVars, probeVars, discVars, paceVars, sweepVars>>

\* Lines 375-376: csvfile.tell() == 0 exactly when the artifact is empty.
AppendHeader ==
    /\ pc = "a_header"
    /\ file' = IF row_count = 0 \/ file = <<>> THEN Append(file, fieldnames)
               ELSE file
    /\ pc' = "a_row"
    /\ UNCHANGED <<row_count, error_count, fieldnames, all_rows, data, row, wi,
                   fileExists, captured, tickStart, migrating, streak, notice,
                   streakNotices, interrupted, intAt, summary>>
    /\ UNCHANGED <<cfgVars, probeVars, discVars, paceVars, sweepVars>>

\* Line 377
AppendData ==
    /\ pc = "a_row"
    /\ file' = Append(file, DictToList(row, fieldnames))
    /\ pc' = "count"
    /\ UNCHANGED <<row_count, error_count, fieldnames, all_rows, data, row, wi,
                   fileExists, captured, tickStart, migrating, streak, notice,
                   streakNotices, interrupted, intAt, summary>>
    /\ UNCHANGED <<cfgVars, probeVars, discVars, paceVars, sweepVars>>

\* Lines 379-387: the row is counted and displayed.
Count ==
    /\ pc = "count"
    /\ row_count' = row_count + 1
    /\ pc' = "sleep"
    /\ UNCHANGED <<error_count, fieldnames, all_rows, data, row, wi,
                   fileExists, file, captured, tickStart, migrating, streak,
                   notice, streakNotices, interrupted, intAt, summary>>
    /\ UNCHANGED <<cfgVars, probeVars, discVars, paceVars, sweepVars>>

\* Line 37
INTERVAL == 1

\* INTERVAL seconds in clock units.
IntervalUnits == INTERVAL * ClockHz

\* What time.time() - start_time can be at line 395, in clock units.
Elapsed == 0..MaxElapsed

\* Python's max of two numbers.
Max(a, b) == IF a >= b THEN a ELSE b

SleepUnclamped(interval, e) == interval - e

\* Line 396: sleep_time = max(0, INTERVAL - elapsed)
SleepTime(interval, e) == Max(0, interval - e)

\* Lines 395-396: the time the tick took is measured and the pause is
\* computed from it.
Pace ==
    /\ pc = "sleep"
    /\ \E e \in Elapsed :
        /\ elapsed' = e
        /\ sleep_time' = SleepTime(IntervalUnits, e)
    /\ pc' = "sleeping"
    /\ UNCHANGED <<overran, pollsInTick>>
    /\ UNCHANGED loopVars
    /\ UNCHANGED <<cfgVars, probeVars, discVars, sweepVars>>

\* Line 397 and the way back to line 345: time.sleep returns and the next
\* tick begins; the locals of the finished tick are dead from here on.
Sleep ==
    /\ pc = "sleeping"
    /\ data' = NoData
    /\ row' = <<>>
    /\ migrating' = FALSE
    /\ overran' = (elapsed > IntervalUnits)
    /\ elapsed' = 0
    /\ sleep_time' = 0
    /\ pollsInTick' = 0
    /\ pc' = "tick"
    /\ UNCHANGED <<row_count, error_count, fieldnames, all_rows, wi,
                   fileExists, file, captured, tickStart, streak, notice,
                   streakNotices, interrupted, intAt, summary>>
    /\ UNCHANGED <<cfgVars, probeVars, discVars, sweepVars>>

LoopPcs == {"tick", "got", "keys", "rw_open", "rw_header", "rw_rows", "append",
            "open_a", "a_header", "a_row", "count", "notice", "sleep",
            "sleeping"}

\* KeyboardInterrupt raised in the main thread anywhere in the try block;
\* an open with block closes (and flushes) its file on the way out.
Interrupt ==
    /\ pc \in LoopPcs
    /\ ~interrupted
    /\ interrupted' = TRUE
    /\ intAt' = pc
    /\ pc' = "except"
    /\ UNCHANGED <<row_count, error_count, fieldnames, all_rows, data, row, wi,
                   fileExists, file, captured, tickStart, migrating, streak,
                   notice, streakNotices, summary>>
    /\ UNCHANGED <<cfgVars, probeVars, discVars, paceVars, sweepVars>>

\* Lines 399-408
Summary ==
    /\ pc = "except"
    /\ summary' = SummaryOf(row_count, fieldnames)
    /\ pc' = "done"
    /\ UNCHANGED <<row_count, error_count, fieldnames, all_rows, data, row, wi,
                   fileExists, file, captured, tickStart, migrating, streak,
                   notice, streakNotices, interrupted, intAt>>
    /\ UNCHANGED <<cfgVars, probeVars, discVars, paceVars, sweepVars>>

(***************************************************************************)
(* Specifications                                                          *)
(***************************************************************************)
DiscoveryIdle ==
    /\ hostIdx = 0
    /\ results = Idle
    /\ subnets = <<>>
    /\ subIdx = 0
    /\ scanResults = NoScan
    /\ tried = {}
    /\ probed = {}
    /\ answered = {}
    /\ confirmed = {}
    /\ returned = <<>>
    /\ localIp = ""
    /\ candidates = <<>>
    /\ swept = <<>>

\* Lines 339-342
LoopIdle ==
    /\ row_count = 0
    /\ error_count = 0
    /\ fieldnames = <<"timestamp">>
    /\ all_rows = <<>>
    /\ data = NoData
    /\ row = <<>>
    /\ wi = 0
    /\ fileExists = FALSE
    /\ file = <<>>
    /\ captured = <<>>
    /\ tickStart = 0
    /\ migrating = FALSE
    /\ streak = 0
    /\ notice = "none"
    /\ streakNotices = 0
    /\ interrupted = FALSE
    /\ intAt = "none"
    /\ summary = NoSummary
    /\ elapsed = 0
    /\ sleep_time = 0
    /\ overran = FALSE
    /\ pollsInTick = 0

NoProbe == [ip |-> "", timeout |-> 0, resp |-> [status |-> "error", body |-> NotJson]]

InitProbe ==
    /\ pc = "probe"
    /\ probeArg \in [ip : ProbeAddresses, timeout : ProbeTimeouts, resp : Responses]
    /\ probeRes = NoneVal
    /\ WICAN_IP = ""
    /\ SCAN_SUBNETS = <<>>
    /\ wican_ip = NoneVal
    /\ working_url = NoneVal
    /\ DiscoveryIdle
    /\ LoopIdle

NextProbe == Probe

SpecProbe == InitProbe /\ [][NextProbe]_vars

InitDiscovery ==
    /\ pc = "main"
    /\ probeArg = NoProbe
    /\ probeRes = NoneVal
    /\ WICAN_IP \in ConfiguredIps
    /\ SCAN_SUBNETS \in ConfiguredSubnets
    /\ wican_ip = NoneVal
    /\ working_url = NoneVal
    /\ DiscoveryIdle
    /\ LoopIdle

NextDiscovery ==
    \/ Start
    \/ TryHostname
    \/ SubmitCommon
    \/ StartCommon
    \/ FinishCommon
    \/ PickCommon
    \/ GetSubnets
    \/ BeginScan
    \/ FinishScan
    \/ CollectScan
    \/ Prompt
    \/ SetUrl

SpecDiscovery == InitDiscovery /\ [][NextDiscovery]_vars

\* The state main is in at line 339, the device found at the first
\* well-known address.
InitLoop ==
    /\ pc = "tick"
    /\ probeArg = NoProbe
    /\ probeRes = NoneVal
    /\ WICAN_IP = ""
    /\ SCAN_SUBNETS = <<>>
    /\ wican_ip = common_ips[1]
    /\ working_url = Url(common_ips[1])
    /\ DiscoveryIdle
    /\ LoopIdle

NextLoop ==
    \/ Poll
    \/ Reading
    \/ ReadingRaises
    \/ Failed
    \/ Notice
    \/ Extend
    \/ RewriteOpen
    \/ RewriteHeader
    \/ RewriteRow
    \/ AppendRow
    \/ OpenAppend
    \/ AppendHeader
    \/ AppendData
    \/ Count
    \/ Pace
    \/ Sleep
    \/ Interrupt
    \/ Summary

SpecLoop == InitLoop /\ [][NextLoop]_vars

\* The interpreter runs the main thread on: the handler of line 399 is
\* reached and executed once the exception is raised.
FairLoop == SpecLoop /\ WF_vars(Summary)

(***************************************************************************)
(* Properties                                                              *)
(***************************************************************************)
IsPrefix(s, t) == Len(s) <= Len(t) /\ \A k \in 1..Len(s) : s[k] = t[k]

\* Position of a field name in Python's string order.
Rank(f) == CHOOSE k \in 1..Len(FieldOrder) : FieldOrder[k] = f

\* The cell a reading must show under a field: the value it reported, the
\* capture time under "timestamp" when it reported none, else empty.
ExpectedCell(c, f) ==
    IF f \in DOMAIN c.body THEN c.body[f]
    ELSE IF f = "timestamp" THEN c.stamp
    ELSE ""

ExpectedRow(c, fields) == [k \in 1..Len(fields) |-> ExpectedCell(c, fields[k])]

\* No record is in progress: every reading taken has been counted.
RecordsComplete == Len(captured) = row_count

\* C1: after the N-th record completes the artifact holds exactly N data
\* rows, in capture order; each row shows the value its reading reported
\* under every field it reported and an empty cell under every other field
\* of the schema, also for rows captured before the field was introduced.
C1_RowsSurviveMigration ==
    (RecordsComplete /\ row_count > 0) =>
        /\ DataRows(file) = row_count
        /\ \A i \in 1..row_count :
              file[i + 1] = ExpectedRow(captured[i], fieldnames)

\* C1 witness: three readings recorded, the first lacking a field that a
\* later one introduced.
C1_Witness ==
    /\ pc = "sleep"
    /\ row_count = 3
    /\ RecordsComplete
    /\ DOMAIN captured[1].body = {"SOC_pct"}
    /\ "Cell_01_V" \in DOMAIN captured[3].body
    /\ "Cell_01_V" \notin DOMAIN captured[2].body
    /\ file[2][3] = ""

\* The artifact is a whole table for the first n readings: a header (the
\* schema, or the schema as it was before this record) and their n rows.
WholeTable(f, n) ==
    /\ Len(f) >= n + 1
    /\ IsPrefix(f[1], fieldnames)
    /\ \A i \in 1..n : f[i + 1] = ExpectedRow(captured[i], f[1])

\* C2: when the interrupt arrives at any point of a migrating record, the
\* artifact is a complete table holding the header and a whole row for
\* every previously recorded reading; never empty, truncated or partial.
C2_MigrationAtomic ==
    (interrupted /\ migrating) => WholeTable(file, row_count)

\* C3: the schema always starts with "timestamp"; a step never removes,
\* renames or reorders a column (the old schema is a prefix of the new one)
\* and the columns one record adds are new and in sorted order.
C3_SchemaMonotone ==
    /\ [](fieldnames[1] = "timestamp")
    /\ [][/\ IsPrefix(fieldnames, fieldnames')
          /\ \A k \in (Len(fieldnames) + 1)..Len(fieldnames') :
                /\ fieldnames'[k] \notin SeqToSet(fieldnames)
                /\ k < Len(fieldnames') =>
                       Rank(fieldnames'[k]) < Rank(fieldnames'[k + 1])]_vars

\* C3 witness: the schema grew twice, the later column sorting before the
\* earlier one.
C3_Witness ==
    /\ fieldnames = <<"timestamp", "SOC_pct", "Cell_01_V">>
    /\ row_count = 2
    /\ pc = "sleep"

\* The phases of discover_wican (1 hostnames, 2 well-known addresses,
\* 3 sweep) that issued a probe, and those that confirmed a device.
PhasesProbed == {p[1] : p \in probed} \cap 1..3
PhasesConfirmed == {c[1] : c \in confirmed} \cap 1..3

\* C4: a well-known address is probed only after every hostname was tried
\* without a confirmation; a sweep address only after the whole well-known
\* batch was answered without one; once a phase confirmed a device no probe
\* of a later phase is issued and discovery returns an address that phase
\* confirmed.
C4_PhaseOrdering ==
    /\ 2 \in PhasesProbed =>
          /\ tried = SeqToSet(WICAN_HOSTNAMES)
          /\ 1 \notin PhasesConfirmed
    /\ 3 \in PhasesProbed =>
          /\ \A i \in 1..Len(common_ips) : <<2, common_ips[i]>> \in answered
          /\ PhasesConfirmed \cap {1, 2} = {}
    /\ \A c \in PhasesConfirmed, p \in PhasesProbed : p <= c
    /\ PhasesConfirmed # {} =>
          /\ pc \in {"common_wait", "scan_wait", "url", "ready"}
          /\ pc \in {"url", "ready"} =>
                /\ returned \in confirmed
                /\ wican_ip = returned[2]

\* C4 witness: only the 4th well-known address answered; it was returned
\* and no sweep probe was issued.
C4_Witness ==
    /\ pc = "ready"
    /\ confirmed = {<<2, common_ips[4]>>}
    /\ returned = <<2, common_ips[4]>>
    /\ \A i \in 1..Len(common_ips) : <<2, common_ips[i]>> \in answered
    /\ 3 \notin PhasesProbed

\* C5: when the well-known phase returns, the address returned is the
\* confirmed one earliest in common_ips, every probe of the batch having
\* completed, in whatever order.
C5_EarliestWins ==
    (returned # <<>> /\ returned[1] = 2) =>
        LET hits == {i \in 1..Len(common_ips) : <<2, common_ips[i]>> \in confirmed}
        IN /\ hits # {}
           /\ \A i \in 1..Len(common_ips) : <<2, common_ips[i]>> \in answered
           /\ \A j \in hits : returned[2] = common_ips[j] => \A i \in hits : j <= i
           /\ \E j \in hits : returned[2] = common_ips[j]

\* C5 witness: the 3rd and the 5th address both confirmed, the 3rd returned.
C5_Witness ==
    /\ returned = <<2, common_ips[3]>>
    /\ confirmed = {<<2, common_ips[3]>>, <<2, common_ips[5]>>}

\* C6: at the end of the n-th failed tick of a streak a notice was printed
\* exactly when n = 1 ("connection lost") or n is a multiple of 10 ("still
\* retrying"); the streak has then seen 1 + n div 10 notices (two at n = 15),
\* and after a reading the streak and its notices start again from 0.
C6_FailureNotices ==
    pc = "sleep" =>
        /\ error_count = streak
        /\ streak = 0 => (notice = "none" /\ streakNotices = 0)
        /\ streak > 0 =>
              /\ notice = (IF streak = 1 THEN "lost"
                           ELSE IF streak % 10 = 0 THEN "retry" ELSE "none")
              /\ streakNotices = 1 + (streak \div 10)
        /\ streak = 15 => streakNotices = 2

\* C6 witness: the 15th failure of a streak that followed a reading, two
\* notices printed.
C6_Witness ==
    /\ pc = "sleep"
    /\ streak = 15
    /\ streakNotices = 2
    /\ row_count = 1

\* C7: whatever the poll returns, the loop leaves its polling states only
\* through the interrupt.
C7_NoPollIsFatal == pc \notin LoopPcs => interrupted

\* C8: the probe confirms exactly the responses whose body parses as a JSON
\* object or array; every other response gives not-confirmed.
C8_ConfirmsOnlyStructured ==
    pc = "probed" =>
        (probeRes # NoneVal <=>
            /\ probeArg.resp.status = "ok"
            /\ probeArg.resp.body.type \in {"object", "array"})

\* C9: a tick whose body parsed as a mapping, whatever its fields, ends with
\* the failure counter at 0 and exactly one more data row in the artifact.
C9_MappingTickSucceeds ==
    (pc = "sleep" /\ data.type = "object") =>
        /\ error_count = 0
        /\ DataRows(file) = tickStart + 1

\* C10 as stated: the summary always gives the row count, the field count,
\* the output path and the field list.
C10_FullSummary ==
    pc = "done" =>
        /\ summary.total_rows = row_count
        /\ summary.total_fields = Len(fieldnames)
        /\ summary.path = OUTPUT_FILE
        /\ summary.field_list = fieldnames

\* C10 amended: once the interrupt has arrived no further poll is issued,
\* the process never dies of an exception, it prints the row and field
\* counts, the path and the field list exactly when a row was counted, and
\* it reaches its end.
C10_Cancellation ==
    /\ [][interrupted => ~(pc = "tick" /\ pc' = "got")]_vars
    /\ [](interrupted => pc \in {"except", "done"})
    /\ [](pc = "done" =>
            /\ summary.total_rows = row_count
            /\ summary.total_fields = Len(fieldnames)
            /\ row_count > 0 =>
                  (summary.path = OUTPUT_FILE /\ summary.field_list = fieldnames)
            /\ row_count = 0 =>
                  (summary.path = NoneVal /\ summary.field_list = <<>>))
    /\ (interrupted ~> pc = "done")

\* C10 witness: interrupted while a row was being appended, rows counted,
\* the summary printed.
C10_Witness ==
    /\ pc = "done"
    /\ intAt = "a_row"
    /\ row_count > 0
    /\ summary.path = OUTPUT_FILE

(***************************************************************************)
(* C11: pacing                                                             *)
(***************************************************************************)
\* C11: at the end of every tick the loop sleeps exactly
\* max(0, interval - elapsed), elapsed being the time since the tick began:
\* the pause is never negative, it is zero whenever the tick took at least
\* the interval, and every tick, also the one after an overrun, has polled
\* exactly once when it goes to sleep (no burst of catch-up polls).
C11_Pacing ==
    /\ pollsInTick <= 1
    /\ (pc = "sleeping" =>
          /\ sleep_time >= 0
          /\ (elapsed >= IntervalUnits => sleep_time = 0)
          /\ (elapsed < IntervalUnits => sleep_time = IntervalUnits - elapsed)
          /\ pollsInTick = 1)

\* A tick that follows an overrun has polled once and sleeps a full
\* interval less its own duration.
C11_Witness ==
    /\ pc = "sleeping"
    /\ overran
    /\ pollsInTick = 1
    /\ elapsed = 1
    /\ sleep_time = IntervalUnits - 1
    /\ sleep_time > 0

(***************************************************************************)
(* C12: the subnet sweep                                                   *)
(***************************************************************************)
\* C12: the subnets are swept in the order of the candidate list; only
\* addresses of a swept subnet are probed; no subnet before the last swept
\* one had a confirmed address, and a sweep that found one sweeps no further:
\* discovery returns, once every probe of that subnet has completed in
\* whatever order, the confirmed address of that subnet with the smallest
\* final octet; it returns nothing only after the whole list was swept in
\* vain.
C12_SweepOrder ==
    LET k == Len(swept)
        Addrs(j) == {Address(swept[j], i) : i \in 0..255}
        Hits(j) == {i \in 0..255 : <<3, Address(swept[j], i)>> \in confirmed}
        probed3 == {x[2] : x \in {y \in probed : y[1] = 3}}
    IN
    /\ k <= Len(candidates)
    /\ swept = SubSeq(candidates, 1, k)
    /\ probed3 \subseteq UNION {Addrs(j) : j \in 1..k}
    /\ \A j \in 1..(k - 1) : Hits(j) = {}
    /\ (pc = "scan" => \A j \in 1..k : Hits(j) = {})
    /\ (k > 0 /\ Hits(k) # {} /\ pc # "scan_wait" =>
            returned # <<>> /\ returned[1] = 3)
    /\ (returned # <<>> /\ returned[1] = 3 =>
          /\ k > 0
          /\ \A a \in Addrs(k) : <<3, a>> \in probed => <<3, a>> \in answered
          /\ \E i \in Hits(k) :
                /\ returned[2] = Address(swept[k], i)
                /\ \A h \in Hits(k) : i <= h)
    /\ (returned # <<>> /\ returned[1] = 0 =>
          /\ swept = candidates
          /\ \A j \in 1..k : Hits(j) = {})

\* The first subnet answered nothing, the second confirmed its addresses 2
\* and 254, and address 2 was returned.
C12_Witness ==
    /\ Len(swept) = 2
    /\ returned = <<3, Address(swept[2], 2)>>
    /\ <<3, Address(swept[2], 254)>> \in confirmed
    /\ <<3, Address(swept[1], 1)>> \in answered
    /\ <<3, Address(swept[1], 1)>> \notin confirmed

(***************************************************************************)
(* C13: the addresses of one sweep                                         *)
(***************************************************************************)
\* C13: scan_subnet probes exactly the host addresses of its subnet, final
\* octets 1 to 254, and no other address.
C13_HostAddresses ==
    \A j \in 1..Len(swept) :
        {i \in 0..255 : <<3, Address(swept[j], i)>> \in probed} = 1..254

(***************************************************************************)
(* C14: the timestamp column                                               *)
(***************************************************************************)
\* C14: for every recorded reading, whatever field names the device
\* reports, the cell under "timestamp" holds the capture time the loop
\* assigned to the reading, never a value supplied by the device.
C14_TimestampIsCaptureTime ==
    (RecordsComplete /\ row_count > 0) =>
        \A i \in 1..row_count :
            file[i + 1][1] = captured[i].stamp

(***************************************************************************)
(* C15: the failed tick                                                    *)
(***************************************************************************)
\* The tick in progress took the failure branch of line 388.
InFailedTick == pc \in {"notice", "sleep", "sleeping"} /\ ~data.truthy

\* C15: a tick whose poll yields no data changes nothing but error_count,
\* raised by exactly 1, and the notices: the schema, the readings held, the
\* row count, the artifact and the endpoint are untouched by each of its
\* steps; it then sleeps what any tick sleeps (no backoff) and goes on to
\* the next poll unless it is interrupted (no give-up).
C15_FailedTickFrame ==
    [][/\ (pc = "got" /\ ~data.truthy /\ pc' # "except" =>
              /\ pc' = "notice"
              /\ error_count' = error_count + 1)
       /\ (InFailedTick => error_count' = error_count)
       /\ ((pc = "got" /\ ~data.truthy) \/ InFailedTick =>
              UNCHANGED <<fieldnames, all_rows, row_count, fileExists, file,
                          working_url, wican_ip>>)
       /\ (InFailedTick /\ pc' = "sleeping" /\ pc = "sleep" =>
              sleep_time' = IF elapsed' >= IntervalUnits THEN 0
                            ELSE IntervalUnits - elapsed')
       /\ (InFailedTick /\ pc = "sleeping" /\ pc' # "except" => pc' = "tick")
       /\ (pc = "tick" /\ error_count > 0 /\ pc' # "except" => pc' = "got")
      ]_vars

\* The second failed tick in a row after one recorded reading sleeps the
\* whole interval.
C15_Witness ==
    /\ pc = "sleeping"
    /\ ~data.truthy
    /\ error_count = 2
    /\ row_count = 1
    /\ Len(all_rows) = 1
    /\ DataRows(file) = 1
    /\ sleep_time = IntervalUnits

(***************************************************************************)
(* C16: append or rewrite                                                  *)
(***************************************************************************)
\* C16: a record starts over from an empty artifact exactly when its
\* reading has a field the schema lacks and a row was counted before; every
\* other step of a record leaves what the artifact holds in place as a
\* prefix, and a record that is done writing has added the header and one
\* row when it is the first, else exactly one row.
C16_RewriteOnlyOnGrowth ==
    [][/\ (pc = "keys" /\ pc' # "except" =>
              /\ (pc' = "rw_open") <=>
                     (DOMAIN row \ SeqToSet(fieldnames) # {} /\ row_count # 0)
              /\ pc' # "rw_open" => pc' = "append")
       /\ (pc = "rw_open" /\ pc' # "except" => file # <<>> /\ file' = <<>>)
       /\ (pc # "rw_open" => IsPrefix(file, file'))
       /\ (pc' = "count" =>
              /\ DataRows(file') = tickStart + 1
              /\ row_count = 0 => Len(file') = 2
              /\ ~migrating => Len(file') = Len(file) + 1)
      ]_vars

\* The second reading brought a new field and was recorded by a rewrite;
\* the third brought none and has just been appended.
C16_Witness ==
    /\ pc = "count"
    /\ row_count = 2
    /\ ~migrating
    /\ Len(file) = 4
    /\ DOMAIN captured[1].body = {"SOC_pct"}
    /\ "Cell_01_V" \in DOMAIN captured[2].body
    /\ DOMAIN captured[3].body = {"SOC_pct"}
    /\ file[2] = <<"t1", "87.5", "">>

(***************************************************************************)
(* C17: the header                                                         *)
(***************************************************************************)
\* C17: whenever every reading taken has been counted, the first line of
\* the artifact is the current schema, in order, and no other line of the
\* artifact is a header: the artifact has one line more than rows counted
\* and every line after the first is a data row.
C17_OneHeader ==
    (RecordsComplete /\ row_count > 0) =>
        /\ file[1] = fieldnames
        /\ Len(file) = row_count + 1
        /\ \A i \in 2..Len(file) :
              /\ file[i] # fieldnames
              /\ file[i] = ExpectedRow(captured[i - 1], fieldnames)
              /\ file[i][1] # "timestamp"

\* A first write, a migration and a plain append have completed.
C17_Witness ==
    /\ pc = "sleep"
    /\ row_count = 3
    /\ RecordsComplete
    /\ DOMAIN captured[1].body = {"SOC_pct"}
    /\ DOMAIN captured[2].body = {"SOC_pct", "Cell_01_V"}
    /\ DOMAIN captured[3].body = {"Cell_01_V"}
    /\ file[1] = <<"timestamp", "SOC_pct", "Cell_01_V">>

(***************************************************************************)
(* C18: the endpoint that is polled                                        *)
(***************************************************************************)
\* C18: when main reaches the acquisition loop, the address its polls go to
\* was confirmed by a probe earlier in the run, whether it came from
\* discovery, from the configuration or from the prompt.
C18_PollsConfirmedOnly ==
    pc = "ready" =>
        /\ working_url = Url(wican_ip)
        /\ \E phase \in 1..4 : <<phase, wican_ip>> \in confirmed

(***************************************************************************)
(* C19: the subnets to sweep                                               *)
(***************************************************************************)
\* C19: the candidate subnets are the configured list when it is not empty;
\* else the single subnet of the local address when there is one; else the
\* fallback list. Only candidate subnets are swept, so the fallback list is
\* not swept when a configured or derived subnet exists, even when the
\* sweep of those ends without a device.
C19_SubnetPrecedence ==
    LET k == Len(swept)
        probed3 == {x[2] : x \in {y \in probed : y[1] = 3}}
        InSubnet(a, subnet) == \E i \in 0..255 : a = Address(subnet, i)
    IN
    /\ (k > 0 => candidates # <<>>)
    /\ (candidates # <<>> =>
          /\ SCAN_SUBNETS # <<>> => candidates = SCAN_SUBNETS
          /\ (SCAN_SUBNETS = <<>> /\ localIp # NoneVal) =>
                /\ Len(candidates) = 1
                /\ InSubnet(localIp, candidates[1])
          /\ (SCAN_SUBNETS = <<>> /\ localIp = NoneVal) =>
                candidates = FallbackSubnets)
    /\ swept = SubSeq(candidates, 1, k)
    /\ probed3 \subseteq
          UNION {{Address(candidates[j], i) : i \in 0..255} :
                    j \in 1..Len(candidates)}

\* The one subnet derived from the local address was swept in vain, and
\* discovery returned nothing without touching the fallback list.
C19_Witness ==
    /\ SCAN_SUBNETS = <<>>
    /\ localIp = "192.168.8.23"
    /\ candidates = <<"192.168.8">>
    /\ swept = candidates
    /\ returned = <<0, NoneVal>>
    /\ <<3, "192.168.8.1">> \in probed
    /\ <<3, Address(FallbackSubnets[1], 1)>> \notin probed

(***************************************************************************)
(* C20: the summary against the artifact                                   *)
(***************************************************************************)
\* C20: wherever in a tick the interrupt arrived, the row count of the
\* summary is the number of data rows in the artifact and its field count
\* is the number of columns of the artifact's header, when there is one.
C20_SummaryMatchesArtifact ==
    summary # NoSummary =>
        /\ summary.total_rows = DataRows(file)
        /\ file # <<>> => summary.total_fields = Len(file[1])

====
